---- MODULE Spec2Model ----
(***************************************************************************)
(* Model of the Urho3D font subsystem with the CJK dynamic glyph cache:    *)
(* Font (resource), FontFace / FontFaceTTF / FontFaceBitmap, as found in   *)
(* Source/Engine/UI/Font.cpp and Font.h.                                   *)
(*                                                                         *)
(* The FreeType rasterizer, the texture object and the bitmap-descriptor   *)
(* loader are external collaborators: a font file is a value (glyph        *)
(* metrics, character map, kerning table bytes) from which the rasterizer  *)
(* operators below compute their answers.                                  *)
(***************************************************************************)
EXTENDS Integers, Sequences, FiniteSets, TLC

(***************************************************************************)
(* Program constants (Font.cpp:47-51).                                     *)
(***************************************************************************)
MIN_POINT_SIZE == 6
MAX_POINT_SIZE == 48
MAX_ASCII_CODE == 127
MIN_TEXTURE_SIZE == 128
MAX_TEXTURE_SIZE == 2048

(***************************************************************************)
(* Bounds of the model.                                                    *)
(***************************************************************************)
\* The number of times the graphics device loses texture data in one
\* behaviour.
MaxLosses == 1

Max(a, b) == IF a > b THEN a ELSE b
Min(a, b) == IF a < b THEN a ELSE b

Clamp(v, lo, hi) == IF v < lo THEN lo ELSE IF v > hi THEN hi ELSE v

Range(s) == {s[i] : i \in DOMAIN s}

(***************************************************************************)
(* Font files.  A glyph has metrics in pixels at MIN_POINT_SIZE; "status"  *)
(* tells whether the rasterizer can load it ("ok"), can load its metrics   *)
(* but not render it ("norender"), or cannot load it at all ("noload").    *)
(* glyphs[i] is the glyph of index i; notdef is glyph index 0, the shape   *)
(* the rasterizer substitutes for a character the font does not define.    *)
(* cmap is the font's character map in increasing character-code order.    *)
(***************************************************************************)
Glyph(w, h, st) ==
    [width |-> w, height |-> h, bearingX |-> 1, bearingY |-> 2,
     advance |-> w + 2, status |-> st]

Map(c, gi) == [charCode |-> c, glyphIndex |-> gi]

\* "kern" table: version 0, one subtable (version 0, coverage 1), one pair
\* (glyph 1, glyph 2, value 5); big-endian bytes.
KernGood ==
    << 0,0, 0,1,  0,0, 0,14, 0,1,  0,1,  0,1, 0,2, 0,5 >>
\* header version 1
KernBadVersion ==
    << 0,1, 0,1,  0,0, 0,14, 0,1,  0,1,  0,1, 0,2, 0,5 >>
\* subtable coverage 0
KernBadCoverage ==
    << 0,0, 0,1,  0,0, 0,14, 0,0,  0,1,  0,1, 0,2, 0,5 >>

\* one subtable of coverage 1 with four pairs: (glyph 1, glyph 5, 7),
\* (glyph 5, glyph 1, 3), (glyph 6, glyph 2, 9), (glyph 1, glyph 8, 4)
KernWide ==
    << 0,0, 0,1,  0,0, 0,32, 0,1,  0,4,
       0,1, 0,5, 0,7,  0,5, 0,1, 0,3,  0,6, 0,2, 0,9,  0,1, 0,8, 0,4 >>
\* subtable coverage 3: horizontal (bit 0) and minimum values (bit 1)
KernMinimum ==
    << 0,0, 0,1,  0,0, 0,14, 0,3,  0,1,  0,1, 0,2, 0,5 >>

\* subtable version 1, coverage 1
KernSubVersion ==
    << 0,0, 0,1,  0,1, 0,14, 0,1,  0,1,  0,1, 0,2, 0,5 >>

\* Every glyph fits the smallest canvas tier: a full-coverage font.
FontSmall ==
    [open |-> TRUE,
     glyphs |-> << Glyph(59, 59, "ok"), Glyph(99, 99, "ok"), Glyph(0, 0, "ok"),
                   Glyph(20, 20, "norender") >>,
     notdef |-> Glyph(30, 30, "ok"),
     cmap |-> << Map(32, 3), Map(65, 1), Map(66, 4), Map(127, 3), Map(300, 2) >>,
     hasKerning |-> TRUE, kernLoad |-> TRUE, kern |-> KernGood, unitsPerEM |-> 8]

\* Five 255x255 glyphs and more: overflows the 512x512 tier at point size 6;
\* two of the large glyphs are ASCII, so two dynamic cells remain.
FontCJK ==
    [open |-> TRUE,
     glyphs |-> << Glyph(255, 255, "ok"), Glyph(255, 255, "ok"), Glyph(9, 9, "ok"),
                   Glyph(255, 200, "ok"), Glyph(200, 255, "ok"),
                   Glyph(255, 255, "ok"), Glyph(100, 100, "norender") >>,
     notdef |-> Glyph(100, 100, "ok"),
     cmap |-> << Map(65, 1), Map(66, 2), Map(127, 3), Map(300, 4), Map(301, 5),
                 Map(302, 6), Map(303, 7) >>,
     hasKerning |-> FALSE, kernLoad |-> TRUE, kern |-> << >>, unitsPerEM |-> 8]

\* As FontCJK, but the missing-glyph shape is larger than every enumerated
\* glyph.
FontBigNotdef ==
    [FontCJK EXCEPT !.notdef = Glyph(300, 300, "ok")]

\* Four large ASCII glyphs fill the whole 512x512 canvas.
FontCrowded ==
    [open |-> TRUE,
     glyphs |-> << Glyph(255, 255, "ok"), Glyph(255, 255, "ok") >>,
     notdef |-> Glyph(10, 10, "ok"),
     cmap |-> << Map(65, 1), Map(66, 1), Map(67, 1), Map(68, 1), Map(300, 2) >>,
     hasKerning |-> FALSE, kernLoad |-> TRUE, kern |-> << >>, unitsPerEM |-> 8]

\* Five large ASCII glyphs: one more than the 512x512 canvas holds.
FontOverfull ==
    [FontCrowded EXCEPT
        !.cmap = << Map(65, 1), Map(66, 1), Map(67, 1), Map(68, 1), Map(69, 1) >>]

\* Three glyphs that fit a canvas grown from 128x128 to 256x128 as they are
\* placed, in an order a canvas 256x128 from the start has no room for.
FontRepack ==
    [open |-> TRUE,
     glyphs |-> << Glyph(99, 59, "ok"), Glyph(119, 119, "ok") >>,
     notdef |-> Glyph(10, 10, "ok"),
     cmap |-> << Map(65, 1), Map(66, 1), Map(300, 2) >>,
     hasKerning |-> FALSE, kernLoad |-> TRUE, kern |-> << >>, unitsPerEM |-> 8]

\* Bytes the rasterizer cannot open.
FontCorrupt ==
    [FontSmall EXCEPT !.open = FALSE]

FontKernBadVersion == [FontSmall EXCEPT !.kern = KernBadVersion]
FontKernBadCoverage == [FontSmall EXCEPT !.kern = KernBadCoverage]
FontKernNoTable == [FontSmall EXCEPT !.kernLoad = FALSE]
FontKernMinimum == [FontSmall EXCEPT !.kern = KernMinimum]
FontKernSubVersion == [FontSmall EXCEPT !.kern = KernSubVersion]

\* FontSmall with a glyph for the line feed (character 10) and one for a
\* character beyond the 16-bit range, both kerned, and a glyph for the space
\* that the rasterizer cannot load; its kerning table also kerns glyph 8,
\* which no character maps to.
FontKernWide ==
    [FontSmall EXCEPT
        !.glyphs = @ \o << Glyph(10, 10, "ok"), Glyph(12, 12, "ok"),
                           Glyph(8, 8, "noload") >>,
        !.cmap = << Map(10, 5), Map(32, 7), Map(65, 1), Map(66, 4), Map(127, 3),
                    Map(300, 2), Map(65601, 6) >>,
        !.kern = KernWide]

FontFiles ==
    << FontSmall, FontCJK, FontBigNotdef, FontCrowded, FontCorrupt,
       FontKernBadVersion, FontKernBadCoverage, FontKernNoTable,
       FontOverfull, FontRepack, FontKernMinimum, FontKernWide,
       FontKernSubVersion >>

(***************************************************************************)
(* The outline rasterizer (FreeType), as the code uses it.                 *)
(***************************************************************************)
\* 16-bit signed conversion, the (short) casts of Font.cpp.
ToShort(v) ==
    LET m == v % 65536 IN IF m >= 32768 THEN m - 65536 ELSE m

\* A font-unit metric at MIN_POINT_SIZE pixels, as a 26.6 fixed-point value
\* at point size ps.
Fixed26_6(v, ps) == (v * 64 * ps) \div MIN_POINT_SIZE

\* FreeTypeLibrary::CreateFace: FT_New_Memory_Face and FT_Set_Char_Size.
CreateFace(font, pointSize) == font.open

\* FT_Load_Glyph: the glyph slot after loading glyph index gi; render is
\* FT_LOAD_RENDER (TRUE) or FT_LOAD_DEFAULT (FALSE).
FT_Load_Glyph(font, ps, gi, render) ==
    LET g == IF gi = 0 THEN font.notdef ELSE font.glyphs[gi]
    IN  [error |-> g.status = "noload" \/ (render /\ g.status = "norender"),
         width |-> Fixed26_6(g.width, ps),
         height |-> Fixed26_6(g.height, ps),
         horiBearingX |-> Fixed26_6(g.bearingX, ps),
         horiBearingY |-> Fixed26_6(g.bearingY, ps),
         horiAdvance |-> Fixed26_6(g.advance, ps)]

\* FT_Get_Char_Index: 0 for a character the font does not define.
CharIndex(font, c) ==
    IF \E i \in DOMAIN font.cmap : font.cmap[i].charCode = c
    THEN font.cmap[CHOOSE i \in DOMAIN font.cmap : font.cmap[i].charCode = c].glyphIndex
    ELSE 0

\* FT_Load_Char with FT_LOAD_RENDER.
FT_Load_Char(font, ps, c) == FT_Load_Glyph(font, ps, CharIndex(font, c), TRUE)

\* face->size->metrics.ascender, 26.6.
Ascender(font, ps) == Fixed26_6(8, ps)

(***************************************************************************)
(* AreaAllocator.  A canvas that starts at (width, height) and grows by    *)
(* doubling, width first, up to (maxWidth, maxHeight); rectangles are      *)
(* placed bottom-left: at the lowest, then leftmost, corner position where *)
(* they fit without overlapping an allocated rectangle.                    *)
(***************************************************************************)
AreaAllocator(w, h, mw, mh) ==
    [width |-> w, height |-> h, maxWidth |-> mw, maxHeight |-> mh,
     doubleWidth |-> TRUE, areas |-> << >>]

Rect(x, y, w, h) == [x |-> x, y |-> y, w |-> w, h |-> h]

Overlap(r, s) ==
    /\ r.w > 0 /\ r.h > 0 /\ s.w > 0 /\ s.h > 0
    /\ r.x < s.x + s.w /\ s.x < r.x + r.w
    /\ r.y < s.y + s.h /\ s.y < r.y + r.h

FreePositions(a, w, h) ==
    LET xs == {0} \cup {a.areas[i].x + a.areas[i].w : i \in DOMAIN a.areas}
        ys == {0} \cup {a.areas[i].y + a.areas[i].h : i \in DOMAIN a.areas}
    IN  {p \in xs \X ys :
            /\ p[1] + w <= a.width
            /\ p[2] + h <= a.height
            /\ \A i \in DOMAIN a.areas : ~Overlap(Rect(p[1], p[2], w, h), a.areas[i])}

CanGrow(a) == a.width < a.maxWidth \/ a.height < a.maxHeight

Grow(a) ==
    IF a.width < a.maxWidth /\ (a.doubleWidth \/ a.height >= a.maxHeight)
    THEN [a EXCEPT !.width = Min(2 * a.width, a.maxWidth), !.doubleWidth = FALSE]
    ELSE [a EXCEPT !.height = Min(2 * a.height, a.maxHeight), !.doubleWidth = TRUE]

RECURSIVE Allocate(_, _, _)
Allocate(a, width, height) ==
    LET w == Max(width, 0)
        h == Max(height, 0)
        free == FreePositions(a, w, h)
    IN  IF free # {}
        THEN LET p == CHOOSE p \in free : \A q \in free :
                         p[2] < q[2] \/ (p[2] = q[2] /\ p[1] <= q[1])
             IN  [ok |-> TRUE, x |-> p[1], y |-> p[2],
                  allocator |-> [a EXCEPT !.areas = Append(@, Rect(p[1], p[2], w, h))]]
        ELSE IF CanGrow(a)
        THEN Allocate(Grow(a), width, height)
        ELSE [ok |-> FALSE, x |-> 0, y |-> 0, allocator |-> a]

(***************************************************************************)
(* FontFaceTTF::CalculateTextureSize (Font.cpp:465-515).                   *)
(***************************************************************************)
\* A width bound halved below 16 and again below 11.
MaxTexWidth_LowTiers(pointSize) ==
    LET w1 == IF pointSize < 16 THEN MAX_TEXTURE_SIZE \div 2 ELSE MAX_TEXTURE_SIZE
    IN  IF pointSize < 11 THEN w1 \div 2 ELSE w1

\* Font.cpp:471-479.
MaxTexWidth(pointSize) ==
    LET w1 == IF pointSize < 32 THEN MAX_TEXTURE_SIZE \div 2 ELSE MAX_TEXTURE_SIZE
    IN  IF pointSize < 16 THEN w1 \div 2 ELSE w1

MaxTexHeight(pointSize) ==
    LET h1 == IF pointSize < 22 THEN MAX_TEXTURE_SIZE \div 2 ELSE MAX_TEXTURE_SIZE
    IN  IF pointSize < 11 THEN h1 \div 2 ELSE h1

\* Font.cpp:495-506: the loop's state s after a glyph of width x height,
\* for which the trial allocator answered r while every glyph before fitted;
\* an Allocate that fails leaves the allocator grown as far as it went.
SizingPlace(s, width, height, r) ==
    [allocator |-> IF s.loadAllGlyphs THEN r.allocator ELSE s.allocator,
     loadAllGlyphs |-> s.loadAllGlyphs /\ r.ok,
     maxGlyphWidth_ |-> Max(s.maxGlyphWidth_, width + 1),
     maxGlyphHeight_ |-> Max(s.maxGlyphHeight_, height + 1)]

\* Font.cpp:486-508: one pass of the loop body, on the glyph slot loaded.
SizingStep(s, slot) ==
    IF slot.error THEN s
    ELSE SizingPlace(s, slot.width \div 64, slot.height \div 64,
                     Allocate(s.allocator, slot.width \div 64 + 1,
                              slot.height \div 64 + 1))

\* The enumeration loop from cmap position i on; s is the loop's state.
RECURSIVE SizingLoop(_, _, _, _)
SizingLoop(font, ps, i, s) ==
    IF i > Len(font.cmap) THEN s
    ELSE SizingLoop(font, ps, i + 1,
             SizingStep(s, FT_Load_Glyph(font, ps, font.cmap[i].glyphIndex, FALSE)))

\* Font.cpp:511-514: what the sizing pass hands to Load.
SizeFound(s) ==
    [loadAllGlyphs |-> s.loadAllGlyphs,
     texWidth |-> s.allocator.width,
     texHeight |-> s.allocator.height,
     maxGlyphWidth_ |-> s.maxGlyphWidth_,
     maxGlyphHeight_ |-> s.maxGlyphHeight_]

\* uw, uh: the values maxGlyphWidth_ and maxGlyphHeight_ hold on entry; the
\* constructor (Font.cpp:171-175) does not initialise them.
SizingTrial(font, ps, uw, uh) ==
    SizingLoop(font, ps, 1,
        [allocator |-> AreaAllocator(MIN_TEXTURE_SIZE, MIN_TEXTURE_SIZE,
                                     MaxTexWidth(ps), MaxTexHeight(ps)),
         loadAllGlyphs |-> TRUE,
         maxGlyphWidth_ |-> uw,
         maxGlyphHeight_ |-> uh])

CalculateTextureSize(font, ps, uw, uh) ==
    SizeFound(SizingTrial(font, ps, uw, uh))

\* The sizing pass as an observer sees it: the bounds of the trial
\* allocator (Font.cpp:482), the result s of the loop, and the values uw, uh
\* the two members held on entry.
SizingRecord(s, uw, uh) ==
    [maxTexWidth |-> s.allocator.maxWidth,
     maxTexHeight |-> s.allocator.maxHeight,
     loadAllGlyphs |-> s.loadAllGlyphs,
     texWidth |-> s.allocator.width,
     texHeight |-> s.allocator.height,
     maxGlyphWidth_ |-> s.maxGlyphWidth_,
     maxGlyphHeight_ |-> s.maxGlyphHeight_,
     uw |-> uw, uh |-> uh]

NoSize ==
    [maxTexWidth |-> 0, maxTexHeight |-> 0, loadAllGlyphs |-> TRUE,
     texWidth |-> 0, texHeight |-> 0, maxGlyphWidth_ |-> 0,
     maxGlyphHeight_ |-> 0, uw |-> 0, uh |-> 0]

(***************************************************************************)
(* FontFaceTTF::Load (Font.cpp:183-395).                                   *)
(***************************************************************************)
\* HashMap::operator[] on a key: the stored value, 0 for a key not present.
Lookup(m, k) == IF k \in DOMAIN m THEN m[k] ELSE 0

\* m with m[k] = v.
Store(m, k, v) == (k :> v) @@ m

\* A population that takes the low range only, whatever the sizing pass found.
EagerlyPopulated_LowOnly(loadAllGlyphs, charCode) ==
    charCode < MAX_ASCII_CODE

\* Font.cpp:234: the characters rasterized into the static table at load.
EagerlyPopulated(loadAllGlyphs, charCode) ==
    loadAllGlyphs \/ charCode < MAX_ASCII_CODE

\* Font.cpp:287-294: the glyph recorded when the rasterizer fails.
PlaceholderGlyph ==
    [x_ |-> 0, y_ |-> 0, width_ |-> 0, height_ |-> 0,
     offsetX_ |-> 0, offsetY_ |-> 0, advanceX_ |-> 0, page_ |-> 0]

\* Glyph geometry that loses the place of the glyph in the texture.
SlotGlyph_NoPlace(font, ps, slot, x, y) ==
    [x_ |-> 0, y_ |-> 0,
     width_ |-> ToShort(slot.width \div 64),
     height_ |-> ToShort(slot.height \div 64),
     offsetX_ |-> ToShort(slot.horiBearingX \div 64),
     offsetY_ |-> ToShort((Ascender(font, ps) - slot.horiBearingY) \div 64),
     advanceX_ |-> ToShort(slot.horiAdvance \div 64),
     page_ |-> 0]

\* Font.cpp:243-248 and 431-435: glyph geometry from the glyph slot.
SlotGlyph(font, ps, slot, x, y) ==
    [x_ |-> ToShort(x), y_ |-> ToShort(y),
     width_ |-> ToShort(slot.width \div 64),
     height_ |-> ToShort(slot.height \div 64),
     offsetX_ |-> ToShort(slot.horiBearingX \div 64),
     offsetY_ |-> ToShort((Ascender(font, ps) - slot.horiBearingY) \div 64),
     advanceX_ |-> ToShort(slot.horiAdvance \div 64),
     page_ |-> 0]

\* A population that gives up at a glyph the rasterizer fails on.
PopulatePlace_AbortOnError(font, ps, loadAllGlyphs, s, charCode, slot, r, index) ==
    IF ~EagerlyPopulated(loadAllGlyphs, charCode)
    THEN [s EXCEPT !.glyphIndexToCharCodeMapping = index]
    ELSE IF slot.error \/ ~r.ok
    THEN [s EXCEPT !.ok = FALSE]
    ELSE [s EXCEPT !.allocator = r.allocator,
                   !.glyphMapping_ =
                       Store(@, charCode, SlotGlyph(font, ps, slot, r.x, r.y)),
                   !.glyphIndexToCharCodeMapping = index]

\* Font.cpp:234-301: the loop's state s after the entry (charCode,
\* glyphIndex) of the character map; slot is the glyph slot after
\* FT_Load_Glyph with FT_LOAD_RENDER, r the allocator's answer for the glyph,
\* index the glyph-index-to-character map with the entry recorded.
PopulatePlace(font, ps, loadAllGlyphs, s, charCode, slot, r, index) ==
    IF ~EagerlyPopulated(loadAllGlyphs, charCode)
    THEN [s EXCEPT !.glyphIndexToCharCodeMapping = index]
    ELSE IF slot.error
    THEN [s EXCEPT !.glyphMapping_ = Store(@, charCode, PlaceholderGlyph),
                   !.glyphIndexToCharCodeMapping = index]
    ELSE IF ~r.ok
    THEN [s EXCEPT !.ok = FALSE]
    ELSE [s EXCEPT !.allocator = r.allocator,
                   !.glyphMapping_ =
                       Store(@, charCode, SlotGlyph(font, ps, slot, r.x, r.y)),
                   !.glyphIndexToCharCodeMapping = index]

\* Font.cpp:237-251 and 300-301: the slot loaded, the allocation asked, the
\* index entry made.
PopulateSlot(font, ps, loadAllGlyphs, s, charCode, glyphIndex, slot) ==
    PopulatePlace(font, ps, loadAllGlyphs, s, charCode, slot,
        Allocate(s.allocator, ToShort(slot.width \div 64) + 1,
                 ToShort(slot.height \div 64) + 1),
        IF font.hasKerning
        THEN Store(s.glyphIndexToCharCodeMapping, glyphIndex, charCode)
        ELSE s.glyphIndexToCharCodeMapping)

\* Font.cpp:230-304: the population loop from cmap position i on; it ends
\* at the first allocation that fails.
RECURSIVE PopulateLoop(_, _, _, _, _)
PopulateLoop(font, ps, loadAllGlyphs, i, s) ==
    IF i > Len(font.cmap) \/ ~s.ok THEN s
    ELSE PopulateLoop(font, ps, loadAllGlyphs, i + 1,
             PopulateSlot(font, ps, loadAllGlyphs, s,
                          font.cmap[i].charCode, font.cmap[i].glyphIndex,
                          FT_Load_Glyph(font, ps, font.cmap[i].glyphIndex, TRUE)))

\* FontFaceTTF::CreateFaceTexture (Font.cpp:517-542); deviceOK: the texture
\* object accepts the size and the data.
CreateFaceTexture(texWidth, texHeight, hasGraphics, deviceOK) ==
    IF texWidth = 0 \/ texHeight = 0 \/ ~hasGraphics \/ ~deviceOK
    THEN << >>
    ELSE << [width |-> texWidth, height |-> texHeight, dataLost |-> FALSE] >>

\* Font.cpp:333-334: the table with each pair of bytes swapped.
SwapBytes(t) ==
    [i \in DOMAIN t |->
        IF i % 2 = 1 THEN (IF i + 1 <= Len(t) THEN t[i + 1] ELSE 0) ELSE t[i - 1]]

\* MemoryBuffer::ReadUShort at byte offset pos, little-endian; 0 past the end.
ReadUShort(buf, pos) ==
    (IF pos + 1 <= Len(buf) THEN buf[pos + 1] ELSE 0)
    + 256 * (IF pos + 2 <= Len(buf) THEN buf[pos + 2] ELSE 0)

ReadShort(buf, pos) == ToShort(ReadUShort(buf, pos))

\* face->size->metrics.x_ppem at 96 dpi.
XPpem(ps) == (ps * 96 * 2 + 72) \div 144

\* Font.cpp:360: (short)(value * factor), factor = x_ppem / units_per_EM;
\* the conversion truncates toward zero.
ScaleKerning(font, ps, value) ==
    LET n == value * XPpem(ps)
    IN  ToShort(IF n >= 0 THEN n \div font.unitsPerEM
                ELSE -((-n) \div font.unitsPerEM))

\* Font.cpp:140 and 365: the table key (c << 16) + d in 32-bit unsigned
\* arithmetic, written as the pair <<high 16 bits, low 16 bits>>.
KerningKey(c, d) == << (c + (d \div 65536)) % 65536, d % 65536 >>

\* Font.cpp:356-367: pair j of numPairs, read at byte offset pos.
RECURSIVE KerningPairs(_, _, _, _, _, _, _, _)
KerningPairs(font, ps, buf, index, pos, j, numPairs, km) ==
    IF j >= numPairs THEN km
    ELSE
      LET leftGlyphIndex == ReadUShort(buf, pos)
          rightGlyphIndex == ReadUShort(buf, pos + 2)
          amount == ScaleKerning(font, ps, ReadShort(buf, pos + 4))
          key == KerningKey(Lookup(index, leftGlyphIndex), Lookup(index, rightGlyphIndex))
      IN  KerningPairs(font, ps, buf, index, pos + 6, j + 1, numPairs,
                       IF amount # 0 THEN Store(km, key, amount) ELSE km)

\* An acceptance that asks for bit 0 of the coverage word only.
SubtableAccepted_BitZero(version, coverage) ==
    coverage % 2 = 1

\* Font.cpp:353: the subtables the parser reads pairs from.
SubtableAccepted(version, coverage) ==
    version = 0 /\ coverage = 1

\* Font.cpp:348-374: subtable i of numTables, read at byte offset pos.
RECURSIVE KerningTables(_, _, _, _, _, _, _, _)
KerningTables(font, ps, buf, index, pos, i, numTables, km) ==
    IF i >= numTables THEN [ok |-> TRUE, kerningMapping_ |-> km]
    ELSE
      LET version == ReadUShort(buf, pos)
          coverage == ReadUShort(buf, pos + 4)
          numPairs == ReadUShort(buf, pos + 6)
      IN  IF SubtableAccepted(version, coverage)
          THEN KerningTables(font, ps, buf, index, pos + 8 + 6 * numPairs, i + 1,
                   numTables,
                   KerningPairs(font, ps, buf, index, pos + 8, 0, numPairs, km))
          ELSE [ok |-> FALSE, kerningMapping_ |-> km]

\* Font.cpp:313-375.
BuildKerning(font, ps, index) ==
    LET buf == SwapBytes(font.kern)
    IN  IF ~font.hasKerning THEN [ok |-> TRUE, kerningMapping_ |-> << >>]
        ELSE IF ~font.kernLoad THEN [ok |-> FALSE, kerningMapping_ |-> << >>]
        ELSE IF ReadUShort(buf, 0) # 0 THEN [ok |-> FALSE, kerningMapping_ |-> << >>]
        ELSE KerningTables(font, ps, buf, index, 4, 0, ReadUShort(buf, 2), << >>)

\* A cell as constructed at Font.cpp:383-387; its geometry is written on
\* first use.
NewCell(x, y) ==
    [x_ |-> ToShort(x), y_ |-> ToShort(y), width_ |-> 0, height_ |-> 0,
     offsetX_ |-> 0, offsetY_ |-> 0, advanceX_ |-> 0, page_ |-> 0,
     charCode_ |-> 0]

\* Font.cpp:381-391: cells allocated until the canvas is full.
RECURSIVE AllocateCells(_, _, _, _)
AllocateCells(allocator, w, h, cells) ==
    LET r == Allocate(allocator, w, h)
    IN  IF r.ok
        THEN AllocateCells(r.allocator, w, h, Append(cells, NewCell(r.x, r.y)))
        ELSE cells

\* mutableGlyphList after the PushFront calls: the last cell allocated is at
\* the head.
InitialList(n) == [i \in 1..n |-> n + 1 - i]

NoFace == [id |-> 0]

\* Font.cpp:186-209, 259, 307-309, 318-373, 394: the face Load leaves, or
\* NoFace when Load returns false; size, pop, textures, kerning, cells are the
\* results of its passes.
LoadResult(font, fontDataSize, pointSize, size, pop, textures, kerning, cells) ==
    IF pointSize <= 0 \/ fontDataSize = 0 THEN NoFace
    ELSE IF ~CreateFace(font, pointSize) THEN NoFace
    ELSE IF ~pop.ok THEN NoFace
    ELSE IF textures = << >> THEN NoFace
    ELSE IF ~kerning.ok THEN NoFace
    ELSE [id |-> 1,
          type |-> "TTF",
          face_ |-> 0,
          pointSize_ |-> pointSize,
          textures_ |-> textures,
          glyphMapping_ |-> pop.glyphMapping_,
          kerningMapping_ |-> kerning.kerningMapping_,
          maxGlyphWidth_ |-> size.maxGlyphWidth_,
          maxGlyphHeight_ |-> size.maxGlyphHeight_,
          cells |-> cells,
          mutableGlyphList |-> InitialList(Len(cells)),
          mutableGlyphMapping_ |-> << >>]

\* Font.cpp:306-392: after the population pass pop, the texture, the kerning
\* table and the cells.
LoadPopulated(font, fontDataSize, pointSize, hasGraphics, deviceOK, size, pop) ==
    LoadResult(font, fontDataSize, pointSize, size, pop,
        CreateFaceTexture(size.texWidth, size.texHeight, hasGraphics, deviceOK),
        BuildKerning(font, pointSize, pop.glyphIndexToCharCodeMapping),
        IF size.loadAllGlyphs THEN << >>
        ELSE AllocateCells(pop.allocator, size.maxGlyphWidth_,
                           size.maxGlyphHeight_, << >>))

\* Font.cpp:216-304: after the sizing pass size, the population pass on an
\* allocator fixed at the size found.
LoadSized(font, fontDataSize, pointSize, hasGraphics, deviceOK, size) ==
    LoadPopulated(font, fontDataSize, pointSize, hasGraphics, deviceOK, size,
        PopulateLoop(font, pointSize, size.loadAllGlyphs, 1,
            [ok |-> TRUE,
             allocator |-> AreaAllocator(size.texWidth, size.texHeight,
                                         size.texWidth, size.texHeight),
             glyphMapping_ |-> << >>,
             glyphIndexToCharCodeMapping |-> << >>]))

\* FontFaceTTF::Load; uw, uh as for CalculateTextureSize.
FontFaceTTF_Load(font, fontDataSize, pointSize, uw, uh, hasGraphics, deviceOK) ==
    LoadSized(font, fontDataSize, pointSize, hasGraphics, deviceOK,
              CalculateTextureSize(font, pointSize, uw, uh))

(***************************************************************************)
(* FontFace::GetGlyph and FontFaceTTF::GetGlyph (Font.cpp:123-130,         *)
(* 397-463).                                                               *)
(***************************************************************************)
NullGlyph == [null |-> TRUE, cell |-> 0, glyph |-> PlaceholderGlyph]

Geometry(g) ==
    [x_ |-> g.x_, y_ |-> g.y_, width_ |-> g.width_, height_ |-> g.height_,
     offsetX_ |-> g.offsetX_, offsetY_ |-> g.offsetY_, advanceX_ |-> g.advanceX_,
     page_ |-> g.page_]

\* FontFace::GetGlyph: the static table.
FontFace_GetGlyph(face, c) ==
    IF c \in DOMAIN face.glyphMapping_
    THEN [null |-> FALSE, cell |-> 0, glyph |-> face.glyphMapping_[c]]
    ELSE NullGlyph

\* A lookup that does not set the line feed apart.
FontFace_GetKerning_AnyChar(face, c, d) ==
    Lookup(face.kerningMapping_, KerningKey(c, d))

\* FontFace::GetKerning (Font.cpp:132-145).
FontFace_GetKerning(face, c, d) ==
    IF face.kerningMapping_ = << >> THEN 0
    ELSE IF c = 10 \/ d = 10 THEN 0
    ELSE Lookup(face.kerningMapping_, KerningKey(c, d))

\* A routing that looks at the cell list only.
RoutedStatic_ListOnly(face, c) ==
    face.mutableGlyphList = << >>

\* Font.cpp:399: the queries answered from the static table.
RoutedStatic(face, c) ==
    face.mutableGlyphList = << >> \/ c <= MAX_ASCII_CODE

\* A list left in the order it had.
MoveToFront_Stay(list, cell) == list

\* The cell put at the tail of the list.
MoveToFront_ToBack(list, cell) ==
    SelectSeq(list, LAMBDA x : x # cell) \o << cell >>

\* Font.cpp:407-409 and 422-424: Erase(glyph->iterator_) then PushFront(glyph).
MoveToFront(list, cell) ==
    << cell >> \o SelectSeq(list, LAMBDA x : x # cell)

\* The cell at the head of the list.
Back_Head(list) == list[1]

\* Font.cpp:421: mutableGlyphList.Back().
Back(list) == list[Len(list)]

\* m without key k.
EraseKey(m, k) == [x \in DOMAIN m \ {k} |-> m[x]]

\* A map that keeps the entry of the character the cell held.
Remap_KeepOld(m, old, c, cell) == Store(m, c, cell)

\* Font.cpp:426-429: the char-to-cell map after cell, tagged old, takes c.
Remap(m, old, c, cell) ==
    Store(IF old # 0 THEN EraseKey(m, old) ELSE m, c, cell)

\* Font.cpp:437-458: the rows copied into the staging buffer of
\* maxGlyphWidth_ * maxGlyphHeight_ bytes run past its end.
StagingOverrun(face, width, height) ==
    /\ width > 0 /\ height > 0
    /\ face.maxGlyphWidth_ * (height - 1) + width
           > face.maxGlyphWidth_ * face.maxGlyphHeight_

NoWrite == Rect(0, 0, 0, 0)

\* A GetGlyph that takes the tail cell for c before it asks the rasterizer:
\* on a failure the cell is at the head, without tag, and its character is
\* unmapped.
FontFaceTTF_GetGlyph_TakeFirst(face, font, c) ==
    IF RoutedStatic(face, c)
    THEN [face |-> face, ret |-> FontFace_GetGlyph(face, c), raster |-> 0,
          write |-> NoWrite, overrun |-> FALSE, evicted |-> 0]
    ELSE IF c \in DOMAIN face.mutableGlyphMapping_
    THEN [face |-> [face EXCEPT !.mutableGlyphList =
                        MoveToFront(@, face.mutableGlyphMapping_[c])],
          ret |-> [null |-> FALSE, cell |-> face.mutableGlyphMapping_[c],
                   glyph |-> face.cells[face.mutableGlyphMapping_[c]]],
          raster |-> 0, write |-> NoWrite, overrun |-> FALSE, evicted |-> 0]
    ELSE LET slot == FT_Load_Char(font, face.pointSize_, c)
             cell == Back(face.mutableGlyphList)
             old == face.cells[cell].charCode_
             g == SlotGlyph(font, face.pointSize_, slot,
                            face.cells[cell].x_, face.cells[cell].y_)
             glyph == [g EXCEPT !.page_ = face.cells[cell].page_] @@ [charCode_ |-> c]
         IN  IF slot.error
             THEN [face |-> [face EXCEPT
                               !.mutableGlyphList = MoveToFront(@, cell),
                               !.mutableGlyphMapping_ =
                                   IF old # 0 THEN EraseKey(@, old) ELSE @,
                               !.cells = [@ EXCEPT ![cell].charCode_ = 0]],
                   ret |-> NullGlyph, raster |-> 1,
                   write |-> NoWrite, overrun |-> FALSE, evicted |-> old]
             ELSE [face |-> [face EXCEPT
                               !.mutableGlyphList = MoveToFront(@, cell),
                               !.mutableGlyphMapping_ = Remap(@, old, c, cell),
                               !.cells = [@ EXCEPT ![cell] = glyph]],
                   ret |-> [null |-> FALSE, cell |-> cell, glyph |-> glyph],
                   raster |-> 1,
                   write |-> Rect(face.cells[cell].x_, face.cells[cell].y_,
                                  face.maxGlyphWidth_, face.maxGlyphHeight_),
                   overrun |-> StagingOverrun(face, glyph.width_, glyph.height_),
                   evicted |-> old]

\* The outcome of GetGlyph(c) on a face whose rasterizer handle was opened on
\* font: the face afterwards, the glyph returned, the number of rasterizer
\* calls, the texture region written, whether the staging copy overran.
FontFaceTTF_GetGlyph(face, font, c) ==
    IF RoutedStatic(face, c)
    THEN [face |-> face, ret |-> FontFace_GetGlyph(face, c), raster |-> 0,
          write |-> NoWrite, overrun |-> FALSE, evicted |-> 0]
    ELSE IF c \in DOMAIN face.mutableGlyphMapping_
    THEN LET cell == face.mutableGlyphMapping_[c]
         IN  [face |-> [face EXCEPT !.mutableGlyphList = MoveToFront(@, cell)],
              ret |-> [null |-> FALSE, cell |-> cell, glyph |-> face.cells[cell]],
              raster |-> 0, write |-> NoWrite, overrun |-> FALSE, evicted |-> 0]
    ELSE LET slot == FT_Load_Char(font, face.pointSize_, c)
             cell == Back(face.mutableGlyphList)
             old == face.cells[cell].charCode_
             g == SlotGlyph(font, face.pointSize_, slot,
                            face.cells[cell].x_, face.cells[cell].y_)
             glyph == [g EXCEPT !.page_ = face.cells[cell].page_] @@ [charCode_ |-> c]
         IN  IF slot.error
             THEN [face |-> face, ret |-> NullGlyph, raster |-> 1,
                   write |-> NoWrite, overrun |-> FALSE, evicted |-> 0]
             ELSE [face |-> [face EXCEPT
                               !.mutableGlyphList = MoveToFront(@, cell),
                               !.mutableGlyphMapping_ = Remap(@, old, c, cell),
                               !.cells = [@ EXCEPT ![cell] = glyph]],
                   ret |-> [null |-> FALSE, cell |-> cell, glyph |-> glyph],
                   raster |-> 1,
                   write |-> Rect(face.cells[cell].x_, face.cells[cell].y_,
                                  face.maxGlyphWidth_, face.maxGlyphHeight_),
                   overrun |-> StagingOverrun(face, glyph.width_, glyph.height_),
                   evicted |-> old]

(***************************************************************************)
(* FontFaceBitmap::Load (Font.cpp:554-670).  The descriptor is the parsed  *)
(* XML: the page images, the char records and the kerning records.         *)
(***************************************************************************)
BitmapGlyph(x, y, w, h, page) ==
    [x_ |-> x, y_ |-> y, width_ |-> w, height_ |-> h,
     offsetX_ |-> 0, offsetY_ |-> 0, advanceX_ |-> w, page_ |-> page]

BitmapGood ==
    [xmlOK |-> TRUE, size |-> 12,
     pages |-> << [width |-> 64, height |-> 64, loads |-> TRUE],
                  [width |-> 32, height |-> 32, loads |-> TRUE] >>,
     chars |-> (65 :> BitmapGlyph(0, 0, 10, 10, 0)) @@
               (300 :> BitmapGlyph(0, 0, 10, 10, 1)),
     kernings |-> << [first |-> 65, second |-> 300, amount |-> -1] >>]

\* The second page image cannot be loaded.
BitmapMissingPage ==
    [BitmapGood EXCEPT !.pages[2].loads = FALSE]

BitmapFiles == << BitmapGood, BitmapMissingPage >>

\* Font.cpp:596-623: a texture per page; << >> when a page fails.
RECURSIVE BitmapPages(_, _, _)
BitmapPages(desc, i, textures) ==
    IF i > Len(desc.pages) THEN [ok |-> TRUE, textures_ |-> textures]
    ELSE IF ~desc.pages[i].loads THEN [ok |-> FALSE, textures_ |-> textures]
    ELSE BitmapPages(desc, i + 1,
             Append(textures, [width |-> desc.pages[i].width,
                               height |-> desc.pages[i].height,
                               dataLost |-> FALSE]))

\* Font.cpp:648-665.
RECURSIVE BitmapKernings(_, _, _)
BitmapKernings(desc, i, km) ==
    IF i > Len(desc.kernings) THEN km
    ELSE LET k == desc.kernings[i]
         IN  BitmapKernings(desc, i + 1,
                 IF k.amount # 0
                 THEN Store(km, KerningKey(k.first, k.second), ToShort(k.amount))
                 ELSE km)

\* The face a successful Load leaves, or NoFace; isXML: the bytes parse as
\* a font descriptor.
FontFaceBitmap_Load(isXML, desc, pointSize) ==
    LET pages == BitmapPages(desc, 1, << >>)
    IN  IF ~isXML \/ ~desc.xmlOK THEN NoFace
        ELSE IF ~pages.ok THEN NoFace
        ELSE [id |-> 1,
              type |-> "BITMAP",
              face_ |-> 0,
              pointSize_ |-> desc.size,
              textures_ |-> pages.textures_,
              glyphMapping_ |-> desc.chars,
              kerningMapping_ |-> BitmapKernings(desc, 1, << >>),
              maxGlyphWidth_ |-> 0,
              maxGlyphHeight_ |-> 0,
              cells |-> << >>,
              mutableGlyphList |-> << >>,
              mutableGlyphMapping_ |-> << >>]

(***************************************************************************)
(* FontFace::IsDataLost, FontFace::GetTotalTextureSize (Font.cpp:147-164). *)
(***************************************************************************)
IsDataLost(face) ==
    \E i \in DOMAIN face.textures_ : face.textures_[i].dataLost

RECURSIVE SumTextures(_, _)
SumTextures(textures, i) ==
    IF i > Len(textures) THEN 0
    ELSE textures[i].width * textures[i].height + SumTextures(textures, i + 1)

GetTotalTextureSize(face) == SumTextures(face.textures_, 1)

(***************************************************************************)
(* The Font resource.                                                      *)
(***************************************************************************)
\* The byte streams Font::Load is given: what the bytes are (kind, index
\* into FontFiles or BitmapFiles), their size, whether the read delivers
\* all of them, and the extension of the resource name.
TTFSource(i) ==
    [kind |-> "ttf", index |-> i, size |-> 100, complete |-> TRUE, ext |-> ".ttf"]

XMLSource(i) ==
    [kind |-> "xml", index |-> i, size |-> 10, complete |-> TRUE, ext |-> ".xml"]

Sources ==
    {TTFSource(i) : i \in DOMAIN FontFiles}
    \cup {XMLSource(i) : i \in DOMAIN BitmapFiles}
    \cup { [kind |-> "ttf", index |-> 1, size |-> 0, complete |-> TRUE, ext |-> ".ttf"],
           [kind |-> "ttf", index |-> 1, size |-> 100, complete |-> FALSE, ext |-> ".ttf"],
           [kind |-> "ttf", index |-> 1, size |-> 100, complete |-> TRUE, ext |-> ".otf"] }

NoData == [kind |-> "none", index |-> 0]

\* The request history seq with c now its most recent entry.
Touch(seq, c) == << c >> \o SelectSeq(seq, LAMBDA x : x # c)

\* The point sizes requested, the character codes queried, and the values
\* an uninitialised int member holds.
PointSizes == {-1, 0, 5, 6, 49}
CharCodes == {65, 127, 300, 301, 302, 303, 999}
KerningCodes == {10, 65, 300, 65601}
UninitValues == {0, 600}

VARIABLES
    graphics,       \* the Graphics subsystem exists (not headless)
    fontData_,      \* Font::fontData_: what bytes the Font holds
    fontDataSize_,  \* Font::fontDataSize_
    fontType_,      \* Font::fontType_
    faces_,         \* Font::faces_: key -> face
    memoryUse_,     \* Resource::memoryUse_
    losses,         \* device losses so far
    crashed,        \* the process died of a memory error
    recency,        \* per face key: the characters served by the dynamic
                    \* cache, most recently requested first (history)
    last            \* the last operation and its outcome (history)

vars == << graphics, fontData_, fontDataSize_, fontType_, faces_, memoryUse_,
           losses, crashed, recency, last >>

\* op, key, arg: the operation and its arguments; face: the face GetFace
\* returned or GetGlyph was called on; ret, raster, write, overrun, evicted:
\* GetGlyph's result, its rasterizer calls, the texture region it wrote,
\* whether its staging copy overran, the character that lost its cell;
\* built, discarded: GetFace constructed a face, erased a cached face;
\* deviceOK: FALSE when GetFace's construction met a texture failure;
\* repeat: the operation before was the same query on the same face;
\* d, kern: GetKerning's second character and its result;
\* size, made: the sizing pass of a FontFaceTTF::Load and the face it left.
NoOp ==
    [op |-> "None", key |-> 0, arg |-> 0, d |-> 0, kern |-> 0,
     size |-> NoSize, made |-> NoFace,
     face |-> NoFace, ret |-> NullGlyph,
     raster |-> 0, write |-> NoWrite, overrun |-> FALSE, evicted |-> 0,
     built |-> FALSE, discarded |-> 0, deviceOK |-> TRUE, repeat |-> FALSE]

Init ==
    /\ graphics \in BOOLEAN
    /\ fontData_ = NoData
    /\ fontDataSize_ = 0
    /\ fontType_ = "NONE"
    /\ faces_ = << >>
    /\ memoryUse_ = 0
    /\ losses = 0
    /\ crashed = FALSE
    /\ recency = << >>
    /\ last = NoOp

(***************************************************************************)
(* Font::Load (Font.cpp:701-733).                                          *)
(***************************************************************************)
\* Font.cpp:725-729: the font type the resource name's extension selects.
TypeOfExtension(ext, current) ==
    IF ext = ".ttf" THEN "TTF"
    ELSE IF ext \in {".xml", ".fnt"} THEN "BITMAP"
    ELSE current

\* Font.cpp:712-723: fontData_ after reading the source.
DataAfterLoad(source) ==
    IF source.size = 0 THEN NoData
    ELSE IF ~source.complete THEN [kind |-> "partial", index |-> source.index]
    ELSE [kind |-> source.kind, index |-> source.index]

Load(source) ==
    /\ ~crashed
    /\ IF ~graphics
       THEN UNCHANGED << fontData_, fontDataSize_, fontType_, faces_, memoryUse_ >>
       ELSE /\ faces_' = << >>
            /\ fontDataSize_' = source.size
            /\ fontData_' = DataAfterLoad(source)
            /\ IF source.size # 0 /\ source.complete
               THEN /\ fontType_' = TypeOfExtension(source.ext, fontType_)
                    /\ memoryUse_' = source.size
               ELSE UNCHANGED << fontType_, memoryUse_ >>
    /\ recency' = [k \in DOMAIN faces_' |-> recency[k]]
    /\ last' = [NoOp EXCEPT !.op = "Load", !.arg = source.size]
    /\ UNCHANGED << graphics, losses, crashed >>

(***************************************************************************)
(* Font::GetFace, GetFaceTTF, GetFaceBitmap (Font.cpp:735-795).            *)
(***************************************************************************)
\* A key clamped from above only.
FaceKey_UpperOnly(fontType, pointSize) ==
    IF fontType = "BITMAP" THEN 0 ELSE Min(pointSize, MAX_POINT_SIZE)

\* A key that is the requested size as it comes.
FaceKey_NoClamp(fontType, pointSize) ==
    IF fontType = "BITMAP" THEN 0 ELSE pointSize

\* Font.cpp:743-746: the key a request is cached under.
FaceKey(fontType, pointSize) ==
    IF fontType = "BITMAP" THEN 0
    ELSE Clamp(pointSize, MIN_POINT_SIZE, MAX_POINT_SIZE)

\* A lookup that does not ask the face for lost data.
Reusable_IgnoreLoss(faces, key) ==
    key \in DOMAIN faces

\* Font.cpp:749-752: the cached face is returned as it is.
Reusable(faces, key) ==
    key \in DOMAIN faces /\ ~IsDataLost(faces[key])

\* A lookup that leaves the face with lost data in place.
AfterLookup_KeepLost(faces, key) == faces

\* Font.cpp:753-757: faces_ after the lookup of a key not reusable.
AfterLookup(faces, key) ==
    IF key \in DOMAIN faces THEN EraseKey(faces, key) ELSE faces

\* The bytes handed to the rasterizer.
TTFBytes(data) ==
    IF data.kind = "ttf" THEN FontFiles[data.index] ELSE FontCorrupt

\* new FontFaceTTF / new FontFaceBitmap and its Load (Font.cpp:762-772,
\* 777-778, 788-789); the Graphics subsystem exists.
Construct(fontType, data, dataSize, key, uw, uh, deviceOK) ==
    IF fontType = "TTF"
    THEN FontFaceTTF_Load(TTFBytes(data), dataSize, key, uw, uh, TRUE, deviceOK)
    ELSE IF fontType = "BITMAP"
    THEN FontFaceBitmap_Load(data.kind = "xml",
             IF data.kind = "xml" THEN BitmapFiles[data.index] ELSE BitmapGood, key)
    ELSE NoFace

\* Construct tabulated over the values the Font's fields and the requests
\* take in this model.
FontTypes == {"NONE", "TTF", "BITMAP"}
DataStates == {<< NoData, 0 >>} \cup {<< DataAfterLoad(s), s.size >> : s \in Sources}
FaceKeys == {FaceKey(t, p) : t \in FontTypes, p \in PointSizes}

Constructed ==
    [t \in FontTypes |-> [ds \in DataStates |-> [key \in FaceKeys |->
        [uw \in UninitValues |-> [uh \in UninitValues |-> [deviceOK \in BOOLEAN |->
            Construct(t, ds[1], ds[2], key, uw, uh, deviceOK)]]]]]]

\* Font.cpp:777-783 and 788-794: faces_ and the memory use after a
\* construction that gave newFace (NoFace: Load returned false).
Keep(faces, mem, key, newFace) ==
    IF newFace.id = 0
    THEN [faces |-> faces, memoryUse |-> mem]
    ELSE [faces |-> Store(faces, key, newFace),
          memoryUse |-> mem + GetTotalTextureSize(newFace)]

\* An identity for a newly constructed face: that of no face the Font holds
\* and not that of the face returned last.
FreshId ==
    LET used == {faces_[k].id : k \in DOMAIN faces_} \cup {last.face.id}
    IN  CHOOSE n \in 1..(Cardinality(used) + 1) :
            n \notin used /\ \A m \in 1..(n - 1) : m \in used

GetFace(pointSize) ==
    /\ ~crashed
    /\ \E uw \in UninitValues, uh \in UninitValues, deviceOK \in BOOLEAN :
        LET key == FaceKey(fontType_, pointSize)
            made == Constructed[fontType_][<< fontData_, fontDataSize_ >>][key]
                        [uw][uh][deviceOK]
            newFace == IF made.id = 0 THEN NoFace
                       ELSE [made EXCEPT !.id = FreshId, !.face_ = fontData_.index]
            kept == Keep(AfterLookup(faces_, key), memoryUse_, key, newFace)
            op == [NoOp EXCEPT !.op = "GetFace", !.arg = pointSize, !.key = key]
        IN  IF ~graphics
            THEN /\ UNCHANGED << faces_, memoryUse_, recency >>
                 /\ last' = op
            ELSE IF Reusable(faces_, key)
            THEN /\ UNCHANGED << faces_, memoryUse_, recency >>
                 /\ last' = [op EXCEPT !.face = [id |-> faces_[key].id]]
            ELSE /\ faces_' = kept.faces
                 /\ memoryUse_' = kept.memoryUse
                 /\ recency' = [k \in DOMAIN faces_' |->
                                   IF k = key THEN << >> ELSE recency[k]]
                 /\ last' = [op EXCEPT
                        !.face = [id |-> newFace.id],
                        !.built = newFace.id # 0,
                        !.deviceOK = deviceOK,
                        !.discarded = IF key \in DOMAIN faces_
                                      THEN faces_[key].id ELSE 0]
    /\ UNCHANGED << graphics, fontData_, fontDataSize_, fontType_, losses, crashed >>

(***************************************************************************)
(* A glyph query on a face the Font holds.                                 *)
(***************************************************************************)
GetGlyph(key, c) ==
    /\ ~crashed
    /\ key \in DOMAIN faces_
    /\ LET face == faces_[key]
           out == IF face.type = "TTF"
                  THEN FontFaceTTF_GetGlyph(face, FontFiles[face.face_], c)
                  ELSE [face |-> face, ret |-> FontFace_GetGlyph(face, c),
                        raster |-> 0, write |-> NoWrite, overrun |-> FALSE,
                        evicted |-> 0]
       IN  /\ faces_' = [faces_ EXCEPT ![key] = out.face]
           /\ recency' = IF out.ret.null \/ out.ret.cell = 0 THEN recency
                         ELSE [recency EXCEPT ![key] = Touch(@, c)]
           /\ last' = [NoOp EXCEPT
                  !.op = "GetGlyph", !.key = key, !.arg = c,
                  !.face = [id |-> face.id], !.ret = out.ret,
                  !.raster = out.raster, !.write = out.write,
                  !.overrun = out.overrun, !.evicted = out.evicted,
                  !.repeat = /\ last.op = "GetGlyph" /\ last.key = key
                             /\ last.arg = c]
           \* an overrun of the staging buffer corrupts the heap: the
           \* process goes on, or dies
           /\ crashed' \in (IF out.overrun THEN BOOLEAN ELSE {FALSE})
    /\ UNCHANGED << graphics, fontData_, fontDataSize_, fontType_, memoryUse_, losses >>

(***************************************************************************)
(* The graphics device loses the data of a texture (Texture2D::IsDataLost  *)
(* turns true).                                                            *)
(***************************************************************************)
LoseData(key, i) ==
    /\ ~crashed
    /\ losses < MaxLosses
    /\ key \in DOMAIN faces_
    /\ i \in DOMAIN faces_[key].textures_
    /\ ~faces_[key].textures_[i].dataLost
    /\ faces_' = [faces_ EXCEPT ![key].textures_[i].dataLost = TRUE]
    /\ losses' = losses + 1
    /\ last' = [NoOp EXCEPT !.op = "LoseData", !.key = key, !.arg = i]
    /\ UNCHANGED << graphics, fontData_, fontDataSize_, fontType_, memoryUse_,
                    crashed, recency >>

Next ==
    \/ \E source \in Sources : Load(source)
    \/ \E pointSize \in PointSizes : GetFace(pointSize)
    \/ \E key \in DOMAIN faces_, c \in CharCodes : GetGlyph(key, c)
    \/ \E key \in DOMAIN faces_, i \in 1..2 : LoseData(key, i)

Spec == Init /\ [][Next]_vars

(***************************************************************************)
(* A kerning query on a face the Font holds (FontFace::GetKerning is       *)
(* const: nothing of the face changes).                                    *)
(***************************************************************************)
GetKerning(key, c, d) ==
    /\ ~crashed
    /\ key \in DOMAIN faces_
    /\ last' = [NoOp EXCEPT
           !.op = "GetKerning", !.key = key, !.arg = c, !.d = d,
           !.face = [id |-> faces_[key].id],
           !.kern = FontFace_GetKerning(faces_[key], c, d)]
    /\ UNCHANGED << graphics, fontData_, fontDataSize_, fontType_, faces_,
                    memoryUse_, losses, crashed, recency >>

\* Loads, face requests and kerning queries.
NextKerning ==
    \/ \E source \in Sources : Load(source)
    \/ \E pointSize \in PointSizes : GetFace(pointSize)
    \/ \E key \in DOMAIN faces_, c \in KerningCodes, d \in KerningCodes :
          GetKerning(key, c, d)

SpecKerning == Init /\ [][NextKerning]_vars

(***************************************************************************)
(* FontFaceTTF::Load (Font.cpp:183-395) on its own: a new FontFaceTTF      *)
(* loads the bytes of font file i at a point size of the supported range,  *)
(* with the Graphics subsystem and a device that accepts the texture.  A   *)
(* face object is loaded once (GetFaceTTF, Font.cpp:777-778).              *)
(***************************************************************************)
LoadFace(i, pointSize, uw, uh) ==
    /\ ~crashed
    /\ last = NoOp
    /\ last' = [NoOp EXCEPT
           !.op = "LoadFace", !.key = pointSize, !.arg = i,
           !.size = IF CreateFace(FontFiles[i], pointSize)
                    THEN SizingRecord(SizingTrial(FontFiles[i], pointSize, uw, uh),
                                      uw, uh)
                    ELSE NoSize,
           !.made = FontFaceTTF_Load(FontFiles[i], TTFSource(i).size, pointSize,
                                     uw, uh, TRUE, TRUE)]
    /\ UNCHANGED << graphics, fontData_, fontDataSize_, fontType_, faces_,
                    memoryUse_, losses, crashed, recency >>

NextLoad ==
    \E i \in DOMAIN FontFiles, pointSize \in MIN_POINT_SIZE..MAX_POINT_SIZE,
       uw \in UninitValues, uh \in UninitValues :
        LoadFace(i, pointSize, uw, uh)

SpecLoad == Init /\ [][NextLoad]_vars

(***************************************************************************)
(* Properties.                                                             *)
(***************************************************************************)
\* The faces with a dynamic glyph cache.
HasCells(face) == face.type = "TTF" /\ face.mutableGlyphList # << >>

\* The characters a face's cells hold, in mutableGlyphList order, empty
\* cells left out.
CachedOrder(face) ==
    LET occupied == SelectSeq(face.mutableGlyphList,
                              LAMBDA i : face.cells[i].charCode_ # 0)
    IN  [n \in DOMAIN occupied |-> face.cells[occupied[n]].charCode_]

Position(seq, x) == CHOOSE n \in DOMAIN seq : seq[n] = x

\* C1: on a face with at least one dynamic cell, a GetGlyph(c)
\* that directly follows a GetGlyph(c) calls the rasterizer zero times and
\* returns the glyph the first call returned, for every character code c.
C1_AnyRepeat ==
    [][ ( /\ last'.op = "GetGlyph" /\ last'.repeat
          /\ HasCells(faces_[last'.key]) )
        => ( /\ last'.raster = 0
             /\ last'.ret = last.ret ) ]_vars

\* What holds of repeated queries: on a face with at least one dynamic cell,
\* a GetGlyph(c) that
\* directly follows a GetGlyph(c) which returned a glyph calls the
\* rasterizer zero times and returns the same cell and the same geometry
\* (x, y, width, height, offsets, advance, page); after a GetGlyph(c) that
\* returned null it returns null again.
RepeatOfServedIsFree ==
    [][ ( /\ last'.op = "GetGlyph" /\ last'.repeat
          /\ HasCells(faces_[last'.key]) )
        => IF last.ret.null
           THEN last'.ret.null
           ELSE /\ last'.raster = 0
                /\ ~last'.ret.null
                /\ last'.ret.cell = last.ret.cell
                /\ Geometry(last'.ret.glyph) = Geometry(last.ret.glyph) ]_vars

\* A repeated query answered by the dynamic cache without rasterizing.
RepeatOfServed ==
    /\ last.op = "GetGlyph" /\ last.repeat
    /\ ~last.ret.null /\ last.ret.cell # 0
    /\ last.raster = 0

\* C2: the dynamic cache is a true LRU.  With N cells, the cached characters
\* are the (at most N) characters most recently requested through the
\* cache, the list holds them most recent first, and a miss that reuses an
\* occupied cell evicts the cached character requested longest ago.
C2_TrueLRU ==
    \A key \in DOMAIN faces_ :
        LET face == faces_[key]
            n == Min(Len(recency[key]), Len(face.mutableGlyphList))
        IN  HasCells(face) =>
              /\ CachedOrder(face) = SubSeq(recency[key], 1, n)
              /\ DOMAIN face.mutableGlyphMapping_ = Range(CachedOrder(face))
              /\ ( last.op = "GetGlyph" /\ last.key = key /\ last.evicted # 0 )
                 => /\ last.evicted \notin DOMAIN face.mutableGlyphMapping_
                    /\ \A d \in DOMAIN face.mutableGlyphMapping_ :
                          Position(recency[key], d)
                              < Position(recency[key], last.evicted)

\* A miss has evicted a character from a cache of at least two cells.
C2_Witness ==
    /\ last.op = "GetGlyph" /\ last.evicted # 0
    /\ last.key \in DOMAIN faces_
    /\ Len(faces_[last.key].mutableGlyphList) >= 2
    /\ Len(recency[last.key]) > Len(faces_[last.key].mutableGlyphList)

\* The rectangles of a face's glyphs of nonzero area: static table entries
\* and occupied dynamic cells.
GlyphRect(g, id) ==
    Rect(g.x_, g.y_, g.width_, g.height_) @@ [page |-> g.page_, id |-> id]

GlyphRects(face) ==
    {GlyphRect(face.glyphMapping_[c], << "static", c >>) :
        c \in DOMAIN face.glyphMapping_}
    \cup
    {GlyphRect(face.cells[i], << "cell", i >>) :
        i \in {j \in DOMAIN face.cells : face.cells[j].charCode_ # 0}}

\* C3: in every state, the rectangles of two distinct glyphs of nonzero area
\* on the same page of an outline face do not overlap.
C3_NoOverlap ==
    \A key \in DOMAIN faces_ :
        faces_[key].type = "TTF" =>
            \A r, q \in GlyphRects(faces_[key]) :
                (r.id # q.id /\ r.page = q.page) => ~Overlap(r, q)

\* The region of the texture a cell owns.
CellRegion(face, i) ==
    Rect(face.cells[i].x_, face.cells[i].y_, face.maxGlyphWidth_, face.maxGlyphHeight_)

\* C4: a GetGlyph call changes neither the number of cells nor the atlas
\* coordinates (x, y, page) of any cell, nor the static table, the kerning
\* table, the textures or the cell size; it leaves every cell but the one
\* it returns as it was; and it writes no pixels (a hit, a static answer, a
\* failed rasterization), or exactly the region of the cell it returns.
C4_CellsStay ==
    [][ last'.op = "GetGlyph" =>
          LET key == last'.key
              old == faces_[key]
              new == faces_'[key]
          IN  /\ DOMAIN faces_' = DOMAIN faces_
              /\ \A k \in DOMAIN faces_ \ {key} : faces_'[k] = faces_[k]
              /\ Len(new.cells) = Len(old.cells)
              /\ \A i \in DOMAIN old.cells :
                    /\ new.cells[i].x_ = old.cells[i].x_
                    /\ new.cells[i].y_ = old.cells[i].y_
                    /\ new.cells[i].page_ = old.cells[i].page_
                    /\ (i # last'.ret.cell => new.cells[i] = old.cells[i])
              /\ Range(new.mutableGlyphList) = Range(old.mutableGlyphList)
              /\ Len(new.mutableGlyphList) = Len(old.mutableGlyphList)
              /\ new.glyphMapping_ = old.glyphMapping_
              /\ new.kerningMapping_ = old.kerningMapping_
              /\ new.textures_ = old.textures_
              /\ new.maxGlyphWidth_ = old.maxGlyphWidth_
              /\ new.maxGlyphHeight_ = old.maxGlyphHeight_
              /\ IF last'.raster = 0 \/ last'.ret.null
                 THEN last'.write = NoWrite
                 ELSE last'.write = CellRegion(old, last'.ret.cell) ]_vars

\* A miss has re-used the cell of another character: the cell changed its
\* tag and kept its place in the texture.
C4_Witness ==
    /\ last.op = "GetGlyph" /\ last.raster = 1 /\ ~last.ret.null
    /\ last.evicted # 0
    /\ last.write # NoWrite

\* The character codes a font enumerates.
Enumerated(font) == {font.cmap[i].charCode : i \in DOMAIN font.cmap}

\* Per font file and face key: the sizing pass places every enumerated
\* glyph inside the tiered canvas.
FullCoverage ==
    [i \in DOMAIN FontFiles |-> [key \in FaceKeys |->
        CalculateTextureSize(FontFiles[i], key, 0, 0).loadAllGlyphs]]

\* A texture of the face reports lost data.
ReportsLoss(face) ==
    \E i \in DOMAIN face.textures_ : face.textures_[i].dataLost

C6_PartialHasCache ==
    \A key \in DOMAIN faces_ :
        LET face == faces_[key]
            font == FontFiles[face.face_]
        IN  ( face.type = "TTF" /\ ~FullCoverage[face.face_][face.pointSize_] )
            => /\ Len(face.mutableGlyphList) >= 1
               /\ \A c \in Enumerated(font) :
                     /\ c < MAX_ASCII_CODE => c \in DOMAIN face.glyphMapping_
                     /\ c > MAX_ASCII_CODE => c \notin DOMAIN face.glyphMapping_
               /\ ( /\ last.op = "GetGlyph" /\ last.key = key
                    /\ last.arg \in Enumerated(font)
                    /\ last.arg > MAX_ASCII_CODE
                    /\ ~FT_Load_Char(font, face.pointSize_, last.arg).error )
                  => /\ ~last.ret.null
                     /\ last.ret.cell # 0

\* C7: on a face with a dynamic cache, GetGlyph(c) for c <= MAX_ASCII_CODE
\* returns what the static table holds for c (null when it holds nothing),
\* calls the rasterizer zero times, writes no pixels, evicts nothing and
\* leaves the face, cell order included, as it was; and no character code
\* <= MAX_ASCII_CODE is ever a key of a face's char-to-cell map.
C7_LowRangeStatic ==
    [][ /\ ( /\ last'.op = "GetGlyph" /\ last'.arg <= MAX_ASCII_CODE
             /\ HasCells(faces_[last'.key]) )
           => LET face == faces_[last'.key]
              IN  /\ faces_' = faces_
                  /\ last'.raster = 0
                  /\ last'.evicted = 0
                  /\ last'.write = NoWrite
                  /\ last'.ret.cell = 0
                  /\ IF last'.arg \in DOMAIN face.glyphMapping_
                     THEN /\ ~last'.ret.null
                          /\ last'.ret.glyph = face.glyphMapping_[last'.arg]
                     ELSE last'.ret.null
        /\ \A key \in DOMAIN faces_' :
              \A c \in DOMAIN faces_'[key].mutableGlyphMapping_ :
                  c > MAX_ASCII_CODE ]_vars

\* A low-range query answered from the static table by a face whose dynamic
\* cache holds characters.
C7_Witness ==
    /\ last.op = "GetGlyph" /\ last.arg = 65 /\ ~last.ret.null
    /\ last.raster = 0
    /\ last.key \in DOMAIN faces_
    /\ HasCells(faces_[last.key])
    /\ faces_[last.key].mutableGlyphMapping_ # << >>

\* C8: GetFace(pointSize) works on the key 0 for a bitmap font and on
\* pointSize clamped into MIN_POINT_SIZE..MAX_POINT_SIZE otherwise; when the
\* Font holds a face for the key and no texture of it reports lost data, it
\* returns that face, constructs none and leaves the cache as it was; a face
\* it returns is the one cached under the key (an outline face of that very
\* size); and a GetFace directly after a GetFace of the same key that
\* returned a face returns the same face.
C8_CachedByEffectiveSize ==
    [][ ( last'.op = "GetFace" /\ graphics )
        => LET key == IF fontType_ = "BITMAP" THEN 0
                      ELSE IF last'.arg < MIN_POINT_SIZE THEN MIN_POINT_SIZE
                      ELSE IF last'.arg > MAX_POINT_SIZE THEN MAX_POINT_SIZE
                      ELSE last'.arg
           IN  /\ last'.key = key
               /\ ( key \in DOMAIN faces_ /\ ~ReportsLoss(faces_[key]) )
                  => /\ last'.face.id = faces_[key].id
                     /\ ~last'.built
                     /\ faces_' = faces_
               /\ last'.face.id # 0
                  => /\ key \in DOMAIN faces_'
                     /\ faces_'[key].id = last'.face.id
                     /\ faces_'[key].type = "TTF" => faces_'[key].pointSize_ = key
               /\ ( last.op = "GetFace" /\ last.key = key /\ last.face.id # 0 )
                  => last'.face.id = last.face.id ]_vars

\* A request of a size outside the supported range answered with the face
\* cached for the clamped size.
C8_Witness ==
    /\ last.op = "GetFace" /\ last.arg # last.key
    /\ last.face.id # 0 /\ ~last.built
    /\ last.key \in DOMAIN faces_
    /\ faces_[last.key].id = last.face.id

\* C9: a GetFace that finds the cached face with lost texture data returns
\* a face, not null: a rebuilt face, not the lost one, cached under the key
\* and reporting no lost data.
C9_LossNeverFails ==
    ( last.op = "GetFace" /\ last.discarded # 0 )
    => /\ last.face.id # 0
       /\ last.face.id # last.discarded
       /\ last.key \in DOMAIN faces_
       /\ faces_[last.key].id = last.face.id
       /\ ~ReportsLoss(faces_[last.key])

\* C9 amended: a GetFace that finds the cached face with lost texture data
\* discards it and constructs a face from the stored font bytes; if the
\* construction succeeds the rebuilt face is cached and returned, if it fails
\* GetFace returns null and the key is left without a face.  No GetFace
\* returns a face that reports lost data.
C9_LossRebuildsOrFails ==
    [][ ( last'.op = "GetFace" /\ graphics )
        => LET key == last'.key
           IN  /\ ( key \in DOMAIN faces_ /\ ReportsLoss(faces_[key]) )
                  => /\ last'.discarded = faces_[key].id
                     /\ last'.face.id # faces_[key].id
                     /\ IF last'.face.id # 0
                        THEN /\ last'.built
                             /\ key \in DOMAIN faces_'
                             /\ faces_'[key].id = last'.face.id
                        ELSE key \notin DOMAIN faces_'
               /\ last'.face.id # 0
                  => /\ key \in DOMAIN faces_'
                     /\ ~ReportsLoss(faces_'[key]) ]_vars

\* A face with lost data has been discarded and a rebuilt one returned.
C9_Witness ==
    /\ last.op = "GetFace" /\ last.discarded # 0
    /\ last.face.id # 0 /\ last.built
    /\ last.key \in DOMAIN faces_
    /\ faces_[last.key].id = last.face.id

\* The kerning table of the font is one the parser rejects.
BadKerning(font) ==
    /\ font.hasKerning
    /\ ~font.kernLoad \/ font.kern \in {KernBadVersion, KernBadCoverage}

\* C10: GetFace returns null when there is no Graphics subsystem, when the
\* stored font data is empty, and when it has to construct an outline face
\* and the rasterizer cannot open the bytes, the population pass runs out of
\* canvas, the texture cannot be created or the kerning table is malformed;
\* whenever it returns null the key has no face in faces_ afterwards, and
\* whenever it returns a face, that face is the one cached under the key,
\* with its texture, reporting no lost data.
C10_NullOnFailure ==
    [][ last'.op = "GetFace"
        => LET key == last'.key
               font == TTFBytes(fontData_)
               constructs == /\ graphics /\ fontType_ = "TTF"
                             /\ ~( key \in DOMAIN faces_
                                   /\ ~ReportsLoss(faces_[key]) )
           IN  /\ ~graphics => last'.face.id = 0
               /\ fontDataSize_ = 0 => last'.face.id = 0
               /\ ( /\ constructs
                    /\ \/ ~font.open
                       \/ font \in {FontOverfull, FontRepack}
                       \/ ~last'.deviceOK
                       \/ BadKerning(font) )
                  => last'.face.id = 0
               /\ last'.face.id = 0 => key \notin DOMAIN faces_'
               /\ last'.face.id # 0
                  => /\ key \in DOMAIN faces_'
                     /\ faces_'[key].id = last'.face.id
                     /\ faces_'[key].textures_ # << >>
                     /\ ~ReportsLoss(faces_'[key]) ]_vars

\* A rebuild has failed on the texture: GetFace returned null and the face
\* with lost data is gone from the cache.
C10_Witness ==
    /\ last.op = "GetFace" /\ last.face.id = 0
    /\ last.discarded # 0 /\ ~last.deviceOK
    /\ last.key \notin DOMAIN faces_

\* C11: a GetFace on an outline font with a point size of 0 or less returns
\* null, and so does a GetFace on a Font whose font data is empty; neither
\* changes faces_ or the memory use.
C11_NonPositiveFails ==
    [][ ( /\ last'.op = "GetFace" /\ graphics
          /\ \/ fontType_ = "TTF" /\ last'.arg <= 0
             \/ fontDataSize_ = 0 )
        => /\ last'.face.id = 0
           /\ faces_' = faces_
           /\ memoryUse_' = memoryUse_ ]_vars

\* C11 amended: a GetFace on a Font whose font data is empty returns null
\* and changes neither faces_ nor the memory use.  A GetFace on an outline
\* font with a point size of 0 or less does not fail for the size: it works
\* on the key MIN_POINT_SIZE, and the face it returns is the face of size
\* MIN_POINT_SIZE cached under that key; no outline face the Font holds has
\* a point size outside MIN_POINT_SIZE..MAX_POINT_SIZE.
C11_NonPositiveClamped ==
    [][ /\ ( last'.op = "GetFace" /\ graphics /\ fontDataSize_ = 0 )
           => /\ last'.face.id = 0
              /\ faces_' = faces_
              /\ memoryUse_' = memoryUse_
        /\ ( /\ last'.op = "GetFace" /\ graphics
             /\ fontType_ = "TTF" /\ last'.arg <= 0 )
           => /\ last'.key = MIN_POINT_SIZE
              /\ last'.face.id # 0
                 => /\ MIN_POINT_SIZE \in DOMAIN faces_'
                    /\ faces_'[MIN_POINT_SIZE].id = last'.face.id
                    /\ faces_'[MIN_POINT_SIZE].pointSize_ = MIN_POINT_SIZE
        /\ \A key \in DOMAIN faces_' :
              faces_'[key].type = "TTF"
              => /\ faces_'[key].pointSize_ >= MIN_POINT_SIZE
                 /\ faces_'[key].pointSize_ <= MAX_POINT_SIZE ]_vars

\* A request of point size 0 or less has constructed a face.
C11_Witness ==
    /\ last.op = "GetFace" /\ last.arg <= 0
    /\ last.face.id # 0 /\ last.built
    /\ last.key \in DOMAIN faces_
    /\ faces_[last.key].type = "TTF"

\* C12: a kerning query whose first or second character is the line feed
\* returns 0, whatever the kerning table of the face holds.
C12_NewlineIsZero ==
    ( last.op = "GetKerning" /\ (last.arg = 10 \/ last.d = 10) )
    => last.kern = 0

\* A query with the line feed on a face whose table holds an adjustment
\* under the key of the queried pair.
C12_Witness ==
    /\ last.op = "GetKerning" /\ (last.arg = 10 \/ last.d = 10)
    /\ last.key \in DOMAIN faces_
    /\ faces_[last.key].id = last.face.id
    /\ Lookup(faces_[last.key].kerningMapping_, KerningKey(last.arg, last.d)) # 0
    /\ last.kern = 0

\* C13: on a face loaded at scale factor 1 from a font whose kerning table
\* is one subtable of coverage 1 holding the single pair (glyph of A, glyph
\* of B, v) - KernGood: A = 65, B = 300, v = 5 - GetKerning(A, B) is v and
\* GetKerning(x, y) is 0 for every other ordered pair, GetKerning(B, A)
\* included.
C13_RoundTrip ==
    ( /\ last.op = "GetKerning"
      /\ last.key \in DOMAIN faces_
      /\ faces_[last.key].type = "TTF"
      /\ FontFiles[faces_[last.key].face_].kern = KernGood
      /\ XPpem(faces_[last.key].pointSize_)
            = FontFiles[faces_[last.key].face_].unitsPerEM )
    => last.kern = IF << last.arg, last.d >> = << 65, 300 >> THEN 5 ELSE 0

\* The character code the kerning parser resolves glyph index gi to: the
\* last character of the enumeration mapped to gi, 0 when there is none.
CharOfGlyph(font, gi) ==
    LET at == {i \in DOMAIN font.cmap : font.cmap[i].glyphIndex = gi}
    IN  IF at = {} THEN 0
        ELSE font.cmap[CHOOSE i \in at : \A j \in at : j <= i].charCode

\* The ordered pairs <<leftChar, rightChar>> the kerning table of font
\* (header and one subtable, pairs from byte 13 on) gives a nonzero value;
\* none for a font without kerning.
InsertedPairs(font) ==
    LET t == font.kern
        word(i) == 256 * t[i] + t[i + 1]
    IN  IF ~font.hasKerning THEN {}
        ELSE { << CharOfGlyph(font, word(13 + 6 * j)),
                  CharOfGlyph(font, word(15 + 6 * j)) >> :
                 j \in {k \in 0..(word(11) - 1) : word(17 + 6 * k) # 0} }

\* C14: the kerning table is keyed by the ordered pair of characters, codes
\* of 2^16 and above included: a GetKerning of a pair for which the parser
\* inserted no entry returns 0.
C14_NoSharedKey ==
    ( /\ last.op = "GetKerning"
      /\ last.key \in DOMAIN faces_
      /\ faces_[last.key].type = "TTF"
      /\ << last.arg, last.d >> \notin InsertedPairs(FontFiles[faces_[last.key].face_]) )
    => last.kern = 0

\* The 16-bit word at bytes i, i + 1 of the big-endian table t.
TableWord(t, i) == 256 * t[i] + t[i + 1]

\* A GetFace step that runs the kerning parser of FontFaceTTF::Load on the
\* table of font: the face is constructed, the bytes open, the population
\* and the texture succeed, the font has a kerning table that loads.
ParsesKerning(font) ==
    /\ last'.op = "GetFace" /\ graphics /\ fontType_ = "TTF"
    /\ fontDataSize_ # 0
    /\ ~Reusable(faces_, last'.key)
    /\ last'.deviceOK
    /\ font.open /\ font.hasKerning /\ font.kernLoad

\* C15: kerning parsing is all-or-nothing: the load gives no face when the
\* header version is not 0 or the subtable's coverage word has bit 0 clear,
\* and nothing is cached then; a subtable whose coverage word has bit 0 set
\* is accepted: the face is produced and holds the subtable's pairs.
C15_BitZeroAccepted ==
    [][ LET font == TTFBytes(fontData_)
            good == /\ TableWord(font.kern, 1) = 0
                    /\ TableWord(font.kern, 9) % 2 = 1
        IN  ParsesKerning(font)
            => /\ ~good => /\ last'.face.id = 0
                           /\ last'.key \notin DOMAIN faces_'
               /\ good => /\ last'.face.id # 0
                          /\ \A pr \in InsertedPairs(font) :
                               KerningKey(pr[1], pr[2])
                                  \in DOMAIN faces_'[last'.key].kerningMapping_ ]_vars

\* C15 amended: kerning parsing is all-or-nothing: the load gives no face,
\* and nothing is cached, unless the header version is 0 and the subtable
\* has version 0 and a coverage word equal to 1 (bit 0 set and every other
\* bit clear); then the face is produced and holds the subtable's pairs.
C15_ExactCoverage ==
    [][ LET font == TTFBytes(fontData_)
            good == /\ TableWord(font.kern, 1) = 0
                    /\ TableWord(font.kern, 5) = 0
                    /\ TableWord(font.kern, 9) = 1
        IN  ParsesKerning(font)
            => /\ ~good => /\ last'.face.id = 0
                           /\ last'.key \notin DOMAIN faces_'
               /\ good => /\ last'.face.id # 0
                          /\ \A pr \in InsertedPairs(font) :
                               KerningKey(pr[1], pr[2])
                                  \in DOMAIN faces_'[last'.key].kerningMapping_ ]_vars

\* The parser has rejected a subtable whose coverage word has bit 0 set:
\* the font held is FontKernMinimum and the face request gave null.
C15_Witness ==
    /\ last.op = "GetFace" /\ last.face.id = 0 /\ last.deviceOK
    /\ graphics /\ fontType_ = "TTF"
    /\ fontDataSize_ # 0
    /\ TTFBytes(fontData_) = FontKernMinimum
    /\ TableWord(FontKernMinimum.kern, 9) = 3
    /\ last.key \notin DOMAIN faces_

\* C16: the bounds of the trial allocator start at MAX_TEXTURE_SIZE x
\* MAX_TEXTURE_SIZE; the width is halved for a point size below 16 and again
\* below 11, the height is halved below 32 and again below 22.
C16_WidthLowTiers ==
    ( last.op = "LoadFace" /\ CreateFace(FontFiles[last.arg], last.key) )
    => /\ last.size.maxTexWidth =
            IF last.key < 11 THEN MAX_TEXTURE_SIZE \div 4
            ELSE IF last.key < 16 THEN MAX_TEXTURE_SIZE \div 2
            ELSE MAX_TEXTURE_SIZE
       /\ last.size.maxTexHeight =
            IF last.key < 22 THEN MAX_TEXTURE_SIZE \div 4
            ELSE IF last.key < 32 THEN MAX_TEXTURE_SIZE \div 2
            ELSE MAX_TEXTURE_SIZE

\* C16 amended: the bounds of the trial allocator start at MAX_TEXTURE_SIZE
\* x MAX_TEXTURE_SIZE; the width is halved for a point size below 32 and
\* again below 16, the height is halved below 22 and again below 11.
C16_InterleavedTiers ==
    ( last.op = "LoadFace" /\ CreateFace(FontFiles[last.arg], last.key) )
    => /\ last.size.maxTexWidth =
            IF last.key < 16 THEN MAX_TEXTURE_SIZE \div 4
            ELSE IF last.key < 32 THEN MAX_TEXTURE_SIZE \div 2
            ELSE MAX_TEXTURE_SIZE
       /\ last.size.maxTexHeight =
            IF last.key < 11 THEN MAX_TEXTURE_SIZE \div 4
            ELSE IF last.key < 22 THEN MAX_TEXTURE_SIZE \div 2
            ELSE MAX_TEXTURE_SIZE

\* A load at a point size from 11 to 15 whose sizing pass ran out of canvas
\* and whose face has the texture of that tier, higher than wide.
C16_Witness ==
    /\ last.op = "LoadFace" /\ last.key >= 11 /\ last.key < 16
    /\ ~last.size.loadAllGlyphs
    /\ last.made.id # 0
    /\ last.made.textures_[1].width = MAX_TEXTURE_SIZE \div 4
    /\ last.made.textures_[1].height = MAX_TEXTURE_SIZE \div 2

\* The glyph slots of the enumeration of font at point size ps that load
\* with metrics only.
SeenSlots(font, ps) ==
    { sl \in { FT_Load_Glyph(font, ps, font.cmap[i].glyphIndex, FALSE) :
                 i \in DOMAIN font.cmap } : ~sl.error }

\* The greatest member of the nonempty set of integers ns.
Greatest(ns) == CHOOSE n \in ns : \A m \in ns : m <= n

\* C17: when the sizing pass fails to place some glyph, the canvas size
\* handed to the load is the bound of the trial allocator, the tier's
\* maximum width and height, and the cell dimensions are the greatest glyph
\* width and height seen over the whole enumeration (with the one pixel of
\* padding of the rectangles placed); a face the load leaves has that
\* texture size and those cell dimensions.
C17_TierAndMaxSeen ==
    ( /\ last.op = "LoadFace"
      /\ CreateFace(FontFiles[last.arg], last.key)
      /\ ~last.size.loadAllGlyphs )
    => LET seen == SeenSlots(FontFiles[last.arg], last.key)
           w == Greatest({sl.width \div 64 : sl \in seen}) + 1
           h == Greatest({sl.height \div 64 : sl \in seen}) + 1
       IN  /\ last.size.texWidth = last.size.maxTexWidth
           /\ last.size.texHeight = last.size.maxTexHeight
           /\ last.size.maxGlyphWidth_ = w
           /\ last.size.maxGlyphHeight_ = h
           /\ last.made.id # 0
              => /\ last.made.textures_[1].width = last.size.maxTexWidth
                 /\ last.made.textures_[1].height = last.size.maxTexHeight
                 /\ last.made.maxGlyphWidth_ = w
                 /\ last.made.maxGlyphHeight_ = h

\* The characters of font the population pass at point size ps takes and
\* the rasterizer fails to render.
FailingChars(font, ps, loadAllGlyphs) ==
    { font.cmap[i].charCode : i \in
        { k \in DOMAIN font.cmap :
            /\ EagerlyPopulated(loadAllGlyphs, font.cmap[k].charCode)
            /\ FT_Load_Glyph(font, ps, font.cmap[k].glyphIndex, TRUE).error } }

\* font with the characters cs taken out of its character map.
WithoutChars(font, cs) ==
    [font EXCEPT !.cmap = SelectSeq(@, LAMBDA e : e.charCode \notin cs)]

\* The face the rest of the load leaves after the sizing pass size when the
\* population pass meets none of the characters cs.
LoadedWithout(i, ps, size, cs) ==
    LoadSized(WithoutChars(FontFiles[i], cs), TTFSource(i).size, ps, TRUE, TRUE, size)

\* made is the face ref with a placeholder glyph added for each character
\* of cs: no face when ref is none, else the same glyphs for the other
\* characters and the same cells.
SameButPlaceholders(made, ref, cs) ==
    /\ made.id = 0 <=> ref.id = 0
    /\ made.id # 0
       => /\ DOMAIN made.glyphMapping_ = DOMAIN ref.glyphMapping_ \cup cs
          /\ \A c \in cs : made.glyphMapping_[c] = PlaceholderGlyph
          /\ \A c \in DOMAIN ref.glyphMapping_ :
                made.glyphMapping_[c] = ref.glyphMapping_[c]
          /\ made.cells = ref.cells
          /\ made.textures_ = ref.textures_

\* C18: a rasterization failure during the population pass does not abort
\* the load: the load ends as it ends when the population pass never meets
\* the failing characters; each failing character is in the static table
\* with zero position, width, height, offsets and advance and takes no area;
\* every other character has the glyph, and the cache the cells, it has
\* without the failing characters.
C18_FailureIsPlaceholder ==
    ( /\ last.op = "LoadFace"
      /\ CreateFace(FontFiles[last.arg], last.key)
      /\ FailingChars(FontFiles[last.arg], last.key, last.size.loadAllGlyphs) # {} )
    => SameButPlaceholders(last.made,
           LoadedWithout(last.arg, last.key, last.size,
               FailingChars(FontFiles[last.arg], last.key, last.size.loadAllGlyphs)),
           FailingChars(FontFiles[last.arg], last.key, last.size.loadAllGlyphs))

\* A load has left a face whose static table holds a placeholder for a
\* character the rasterizer failed on next to a glyph with pixels.
C18_Witness ==
    /\ last.op = "LoadFace" /\ last.made.id # 0
    /\ \E c \in FailingChars(FontFiles[last.arg], last.key, last.size.loadAllGlyphs) :
          /\ c \in DOMAIN last.made.glyphMapping_
          /\ last.made.glyphMapping_[c] = PlaceholderGlyph
    /\ \E c \in DOMAIN last.made.glyphMapping_ :
          last.made.glyphMapping_[c].width_ > 0

\* C19: a GetGlyph(c) that misses the dynamic cache and rasterizes c with
\* success reuses the cell at the tail of the list; afterwards that cell is
\* at the head, carries the tag c and c maps to it, the character the cell
\* held before (if any) is not mapped, every other character maps to the
\* cell it mapped to, every other cell is as it was, the other cells keep
\* their relative order, and the static table and the other faces are
\* unchanged.
C19_MissReusesTail ==
    [][ ( last'.op = "GetGlyph" /\ last'.raster = 1 /\ ~last'.ret.null )
        => LET key == last'.key
               c == last'.arg
               before == faces_[key]
               after == faces_'[key]
               cell == before.mutableGlyphList[Len(before.mutableGlyphList)]
               old == before.cells[cell].charCode_
               others(list) == SelectSeq(list, LAMBDA x : x # cell)
           IN  /\ c \notin DOMAIN before.mutableGlyphMapping_
               /\ last'.ret.cell = cell
               /\ after.mutableGlyphList[1] = cell
               /\ after.cells[cell].charCode_ = c
               /\ DOMAIN after.mutableGlyphMapping_
                     = (DOMAIN before.mutableGlyphMapping_ \ {old}) \cup {c}
               /\ after.mutableGlyphMapping_[c] = cell
               /\ old # 0 => old \notin DOMAIN after.mutableGlyphMapping_
               /\ \A e \in DOMAIN before.mutableGlyphMapping_ \ {old} :
                     after.mutableGlyphMapping_[e] = before.mutableGlyphMapping_[e]
               /\ \A i \in DOMAIN before.cells \ {cell} :
                     after.cells[i] = before.cells[i]
               /\ DOMAIN after.cells = DOMAIN before.cells
               /\ others(after.mutableGlyphList) = others(before.mutableGlyphList)
               /\ Len(after.mutableGlyphList) = Len(before.mutableGlyphList)
               /\ after.glyphMapping_ = before.glyphMapping_
               /\ \A k \in DOMAIN faces_ \ {key} : faces_'[k] = faces_[k] ]_vars

\* A miss has taken an occupied cell of a cache of two cells or more: the
\* cell is at the head with the new character and the other cell, still
\* holding its character, is behind it.
C19_Witness ==
    /\ last.op = "GetGlyph" /\ last.raster = 1 /\ ~last.ret.null
    /\ last.evicted # 0
    /\ last.key \in DOMAIN faces_
    /\ Len(faces_[last.key].mutableGlyphList) >= 2
    /\ faces_[last.key].mutableGlyphList[1] = last.ret.cell
    /\ faces_[last.key].cells[last.ret.cell].charCode_ = last.arg
    /\ faces_[last.key].cells[faces_[last.key].mutableGlyphList[2]].charCode_ # 0

\* C20: the population pass and the routing of GetGlyph draw the same line.
\* On a partial-coverage face with a dynamic cache, a GetGlyph(c) for a
\* character c the font enumerates and the rasterizer renders is routed to
\* the static table exactly when the population pass took c, finds c there
\* when it is so routed, and returns a glyph: the boundary code
\* MAX_ASCII_CODE is no exception.
C20_SameThreshold ==
    ( /\ last.op = "GetGlyph"
      /\ last.key \in DOMAIN faces_
      /\ faces_[last.key].id = last.face.id
      /\ HasCells(faces_[last.key])
      /\ last.arg \in Enumerated(FontFiles[faces_[last.key].face_])
      /\ ~FT_Load_Char(FontFiles[faces_[last.key].face_],
                       faces_[last.key].pointSize_, last.arg).error )
    => /\ RoutedStatic(faces_[last.key], last.arg)
             <=> EagerlyPopulated(FALSE, last.arg)
       /\ RoutedStatic(faces_[last.key], last.arg)
             => last.arg \in DOMAIN faces_[last.key].glyphMapping_
       /\ ~last.ret.null

\* C21: in every state the char-to-cell map and the cell tags of an outline
\* face agree: every entry c -> cell has cell.charCode_ = c, every cell with
\* a nonzero tag is the cell its tag maps to, no two characters map to the
\* same cell, and the map has no more entries than there are cells.
C21_MapAgreesWithTags ==
    \A key \in DOMAIN faces_ :
        LET face == faces_[key]
            m == face.mutableGlyphMapping_
        IN  face.type = "TTF"
            => /\ \A c \in DOMAIN m :
                     /\ m[c] \in DOMAIN face.cells
                     /\ face.cells[m[c]].charCode_ = c
               /\ \A i \in DOMAIN face.cells :
                     face.cells[i].charCode_ # 0
                     => /\ face.cells[i].charCode_ \in DOMAIN m
                        /\ m[face.cells[i].charCode_] = i
               /\ \A c, e \in DOMAIN m : m[c] = m[e] => c = e
               /\ Cardinality(DOMAIN m) <= Len(face.cells)

\* The cache of a face is full, two characters in two cells, after a miss
\* that took the cell of a third character.
C21_Witness ==
    /\ last.op = "GetGlyph" /\ last.evicted # 0
    /\ last.key \in DOMAIN faces_
    /\ Len(faces_[last.key].cells) = 2
    /\ Cardinality(DOMAIN faces_[last.key].mutableGlyphMapping_) = 2
    /\ last.evicted \notin DOMAIN faces_[last.key].mutableGlyphMapping_

\* C22: in the list of cells of an outline face every occupied cell comes
\* before every cell never used; a miss that rasterizes with success takes a
\* never-used cell whenever the cache has one, so it evicts a character only
\* when every cell is occupied.
C22_OccupiedBeforeEmpty ==
    [][ /\ \A key \in DOMAIN faces_' :
              LET face == faces_'[key]
                  list == face.mutableGlyphList
              IN  face.type = "TTF"
                  => \A i, j \in DOMAIN list :
                        ( i < j /\ face.cells[list[j]].charCode_ # 0 )
                        => face.cells[list[i]].charCode_ # 0
        /\ ( last'.op = "GetGlyph" /\ last'.raster = 1 /\ ~last'.ret.null )
           => LET before == faces_[last'.key]
                  empty == {i \in DOMAIN before.cells :
                               before.cells[i].charCode_ = 0}
              IN  /\ empty # {} => last'.ret.cell \in empty
                  /\ empty # {} => last'.evicted = 0
                  /\ last'.evicted # 0 => empty = {} ]_vars

\* A miss has taken the never-used cell of a cache whose other cell holds a
\* character: both cells are occupied and nothing was evicted.
C22_Witness ==
    /\ last.op = "GetGlyph" /\ last.raster = 1 /\ ~last.ret.null
    /\ last.evicted = 0
    /\ last.key \in DOMAIN faces_
    /\ Len(faces_[last.key].mutableGlyphList) = 2
    /\ \A i \in DOMAIN faces_[last.key].cells :
          faces_[last.key].cells[i].charCode_ # 0

\* C23: a GetGlyph for a character routed to the dynamic cache on which the
\* rasterizer fails returns null and leaves every face as it was - the list
\* order, the cells and their tags, the char-to-cell map - evicts nothing
\* and writes no pixels.
C23_FailedMissChangesNothing ==
    [][ ( /\ last'.op = "GetGlyph"
          /\ last'.key \in DOMAIN faces_
          /\ faces_[last'.key].type = "TTF"
          /\ ~RoutedStatic(faces_[last'.key], last'.arg)
          /\ last'.arg \notin DOMAIN faces_[last'.key].mutableGlyphMapping_
          /\ FT_Load_Char(FontFiles[faces_[last'.key].face_],
                          faces_[last'.key].pointSize_, last'.arg).error )
        => /\ last'.ret.null
           /\ faces_' = faces_
           /\ last'.evicted = 0
           /\ last'.write = NoWrite
           /\ ~last'.overrun ]_vars

\* A lookup has failed in the rasterizer on a face whose cache is full: the
\* two cached characters still have their cells.
C23_Witness ==
    /\ last.op = "GetGlyph" /\ last.raster = 1 /\ last.ret.null
    /\ last.key \in DOMAIN faces_
    /\ Len(faces_[last.key].mutableGlyphList) = 2
    /\ Cardinality(DOMAIN faces_[last.key].mutableGlyphMapping_) = 2
    /\ last.arg \notin DOMAIN faces_[last.key].mutableGlyphMapping_

\* C24: every glyph GetGlyph places into a dynamic cell fits the cell: its
\* width and height are at most maxGlyphWidth_ and maxGlyphHeight_, the copy
\* into the staging buffer stays inside the buffer, and the rectangle
\* reported lies inside the region of the cell - for characters the font
\* does not define, which rasterize to the missing-glyph shape, as well.
C24_GlyphFitsCell ==
    ( /\ last.op = "GetGlyph" /\ ~last.ret.null /\ last.ret.cell # 0
      /\ last.key \in DOMAIN faces_
      /\ faces_[last.key].id = last.face.id )
    => /\ last.ret.glyph.width_ <= faces_[last.key].maxGlyphWidth_
       /\ last.ret.glyph.height_ <= faces_[last.key].maxGlyphHeight_
       /\ ~last.overrun

\* The sum of the total texture sizes of the faces under the keys ks.
RECURSIVE HeldTextureSize(_, _)
HeldTextureSize(faces, ks) ==
    IF ks = {} THEN 0
    ELSE LET k == CHOOSE x \in ks : TRUE
         IN  GetTotalTextureSize(faces[k]) + HeldTextureSize(faces, ks \ {k})

\* C25: in every state the memory use the Font reports is the size of the
\* font bytes it stores plus the total texture sizes of the faces it holds.
C25_MemoryUseIsHeld ==
    memoryUse_ = fontDataSize_ + HeldTextureSize(faces_, DOMAIN faces_)

\* C26: every entry of the kerning table of an outline face has a nonzero
\* value and a key made of two character codes the font enumerates; a pair
\* of the font's table that names a glyph index no character maps to has
\* put no entry in, so no key holds the character code 0.
C26_KeysAreEnumerated ==
    \A key \in DOMAIN faces_ :
        faces_[key].type = "TTF"
        => \A k \in DOMAIN faces_[key].kerningMapping_ :
              /\ faces_[key].kerningMapping_[k] # 0
              /\ k[1] \in Enumerated(FontFiles[faces_[key].face_])
              /\ k[2] \in Enumerated(FontFiles[faces_[key].face_])

====
